---- MODULE Spec2Model ----
(***************************************************************************)
(* Model of the storage selection problem builder                          *)
(* (src/optimization/StorageSelectionProblem.py, ProblemConfiguration.py   *)
(* and the driver src/main.py).                                            *)
(*                                                                         *)
(* Energies are integers in Wh, storage sizes in kWh, prices in euro cent  *)
(* per kWh; objective coefficients are exact rationals <<num, den>>.       *)
(***************************************************************************)
EXTENDS Integers, Sequences, FiniteSets, TLC

\* ------------------------------------------------------------------ bounds
MaxScenarios == 2
MaxDays == 1
MaxModules == 1
MaxStorageKwh == 1
MaxSeed == 1

\* ------------------------------------------------- constants of the program
HoursPerDay == 24
KwhToWh == 1000
SolarMean == 500
SolarStd == 200
UsageMean == 10000
UsageStd == 2000
PurchasePriceCents == 50
SellingPriceCents == 12
PriceStd == 0
CentsPerEuro == 100
AreaTenths == 12
AreaScale == 10
MaxWattsPerModule == 800
PricePerModuleEuro == 850
StoragePricePerKwhEuro == 50

\* ------------------------------------------------------------------ state
VARIABLES
    config,             \* ProblemConfiguration handed to every instance
    rng,                \* process-wide state of np.random
    pc,                 \* per instance: position in buildModel / main
    scenario,           \* per instance: loop counter of the scenario loops
    variables,          \* per instance: the solver's variables, by index
    constraints,        \* per instance: the solver's constraints, in order
    objective,          \* per instance: the objective handed to Minimize
    scenario_variables, \* per instance: scenario -> timeslot -> field -> index
    profiles,           \* per instance: scenario -> sampled profile
    prices,             \* per instance: sampled price profiles
    status,             \* result status of solver.Solve()
    solution,           \* values held by the solver's variables after Solve
    printed             \* what main printed

vars == <<config, rng, pc, scenario, variables, constraints, objective,
          scenario_variables, profiles, prices, status, solution, printed>>

\* ------------------------------------------------------------ small helpers
Max(a, b) == IF a >= b THEN a ELSE b
Min(a, b) == IF a <= b THEN a ELSE b

\* Python's range(n): empty when n <= 0
Range(n) == 0 .. (n - 1)

RECURSIVE Gcd(_, _)
Gcd(a, b) == IF b = 0 THEN a ELSE Gcd(b, a % b)

Abs(a) == IF a < 0 THEN 0 - a ELSE a

\* exact rationals <<num, den>>, den > 0, in lowest terms
Rat(n, d) ==
    LET s == IF d < 0 THEN 0 - 1 ELSE 1
        g == Gcd(Abs(n), Abs(d))
    IN  IF n = 0 THEN <<0, 1>> ELSE <<(s * n) \div g, (s * d) \div g>>
RatAdd(p, q) ==
    LET g == Gcd(p[2], q[2])
    IN  Rat(p[1] * (q[2] \div g) + q[1] * (p[2] \div g), (p[2] \div g) * q[2])
RatMul(p, q) == Rat(p[1] * q[1], p[2] * q[2])

\* --------------------------------------------------------- configuration
TimeslotCount(cfg) == cfg.number_of_days * HoursPerDay

Configurations ==
    [ number_of_scenarios : (0 - 1) .. MaxScenarios,
      number_of_days : (0 - 1) .. MaxDays,
      min_number_of_modules : {0, MaxModules + 1},
      max_number_of_modules : {MaxModules},
      min_storage_size_in_kwh : {0, MaxStorageKwh + 1},
      max_storage_size_in_kwh : {MaxStorageKwh},
      area_per_module_tenths : {AreaTenths},
      max_watts_per_module : {MaxWattsPerModule},
      price_per_module_in_euro : {PricePerModuleEuro},
      storage_price_per_kwh_in_euro : {StoragePricePerKwhEuro} ]

\* ------------------------------------------------------- random sampling
\* The standard normal deviates the generator yields, by generator state.
Deviates == <<0, 1, 0 - 3, 2, 0 - 1, 0 - 6, 3>>
Deviate(state) == Deviates[(state % Len(Deviates)) + 1]

\* np.random.normal(loc, scale, size): size draws from the generator state
NormalSample(loc, scale, size, state) ==
    [k \in Range(size) |-> loc + scale * Deviate(state + k)]
NormalAdvance(size, state) == (state + size) % Len(Deviates)

\* lines 90-92: clamp at 0, scale by the module area, cap at the module maximum
ProductionPerModule(cfg, sample) ==
    [k \in DOMAIN sample |->
        Min((Max(sample[k], 0) * cfg.area_per_module_tenths) \div AreaScale,
            cfg.max_watts_per_module)]

\* line 96: clamp at 0
Usage(sample) == [k \in DOMAIN sample |-> Max(sample[k], 0)]

\* ---------------------------------------------------- linear expressions
\* A linear expression: coefficient per variable index, plus a constant.
LVar(i) == [coef |-> (i :> 1), const |-> 0]
LConst(k) == [coef |-> << >>, const |-> k]
LCoef(e, i) == IF i \in DOMAIN e.coef THEN e.coef[i] ELSE 0
LAdd(e, f) ==
    [coef |-> [i \in (DOMAIN e.coef) \cup (DOMAIN f.coef) |-> LCoef(e, i) + LCoef(f, i)],
     const |-> e.const + f.const]
LScale(e, k) ==
    [coef |-> [i \in DOMAIN e.coef |-> k * e.coef[i]], const |-> k * e.const]
LSub(e, f) == LAdd(e, LScale(f, 0 - 1))

RECURSIVE SumOver(_, _, _)
SumOver(S, e, val) ==
    IF S = {} THEN 0
    ELSE LET i == CHOOSE j \in S : TRUE
         IN  e.coef[i] * val[i] + SumOver(S \ {i}, e, val)
LEval(e, val) == e.const + SumOver(DOMAIN e.coef, e, val)

\* the same with rational coefficients (the objective)
RVar(i) == [coef |-> (i :> <<1, 1>>), const |-> <<0, 1>>]
RZero == [coef |-> << >>, const |-> <<0, 1>>]
RCoef(e, i) == IF i \in DOMAIN e.coef THEN e.coef[i] ELSE <<0, 1>>
RAdd(e, f) ==
    [coef |-> [i \in (DOMAIN e.coef) \cup (DOMAIN f.coef) |->
                  RatAdd(RCoef(e, i), RCoef(f, i))],
     const |-> RatAdd(e.const, f.const)]
RScale(e, r) ==
    [coef |-> [i \in DOMAIN e.coef |-> RatMul(r, e.coef[i])],
     const |-> RatMul(r, e.const)]
RSub(e, f) == RAdd(e, RScale(f, <<0 - 1, 1>>))

\* ------------------------------------------------------- solver variables
\* an upper bound is <<value>>, or the solver's Infinity()
Infinity == << >>
UpTo(v) == <<v>>
Fields == <<"storageLevel", "storageEnergyDelta", "producedEnergy",
            "consumedEnergy", "boughtEnergy", "soldEnergy">>

\* lines 40-44
BaseVariableDecls(cfg) ==
    << [name |-> "numberOfModules", integer |-> TRUE,
        lb |-> cfg.min_number_of_modules, ub |-> UpTo(cfg.max_number_of_modules)],
       [name |-> "sizeOfStorageInKwh", integer |-> FALSE,
        lb |-> cfg.min_storage_size_in_kwh, ub |-> UpTo(cfg.max_storage_size_in_kwh)] >>

\* lines 45-48: the indices the two handles refer to
BaseVariablesDict == [numberOfModules |-> 1, sizeOfStorageInKwh |-> 2]

\* lines 68-75: the six variables of one timeslot, in declaration order
TimeslotVariableDecls(cfg, timeslot) ==
    << [name |-> <<timeslot, "storagLevel">>, integer |-> FALSE,
        lb |-> 0, ub |-> UpTo(cfg.max_storage_size_in_kwh * KwhToWh)],
       [name |-> <<timeslot, "storageEnergyDelta">>, integer |-> FALSE,
        lb |-> (0 - cfg.max_storage_size_in_kwh) * KwhToWh,
        ub |-> UpTo(cfg.max_storage_size_in_kwh * KwhToWh)],
       [name |-> <<timeslot, "producedEnergy">>, integer |-> FALSE,
        lb |-> 0, ub |-> Infinity],
       [name |-> <<timeslot, "consumedEnergy">>, integer |-> FALSE,
        lb |-> 0, ub |-> Infinity],
       [name |-> <<timeslot, "boughtEnergy">>, integer |-> FALSE,
        lb |-> 0, ub |-> Infinity],
       [name |-> <<timeslot, "soldEnergy">>, integer |-> FALSE,
        lb |-> 0, ub |-> Infinity] >>

\* lines 66-76: the declarations of the timeslots lo .. hi - 1, in loop order
\* (the loop is split in halves to keep the evaluation shallow)
RECURSIVE TimeslotLoopDecls(_, _, _)
TimeslotLoopDecls(cfg, lo, hi) ==
    IF hi <= lo THEN << >>
    ELSE IF hi = lo + 1 THEN TimeslotVariableDecls(cfg, lo)
    ELSE LET mid == (lo + hi) \div 2
         IN  TimeslotLoopDecls(cfg, lo, mid) \o TimeslotLoopDecls(cfg, mid, hi)

\* a loop that starts at timeslot 1
ScenarioVariableDecls_FromOne(cfg, n) == TimeslotLoopDecls(cfg, 1, n)

\* lines 66-76: declarations of one scenario, for timeslot in range(n)
ScenarioVariableDecls(cfg, n) == TimeslotLoopDecls(cfg, 0, n)

\* lines 66-76: the dictionary timeslot -> field -> variable, given the number
\* of variables the solver held before the scenario's first declaration
ScenarioVariablesDict(cfg, before) ==
    [t \in Range(TimeslotCount(cfg)) |->
        [f \in {Fields[k] : k \in 1 .. Len(Fields)} |->
            before + t * Len(Fields) + (CHOOSE k \in 1 .. Len(Fields) : Fields[k] = f)]]

\* ------------------------------------------------------------ constraints
Constraint(lhs, op, rhs) == [lhs |-> lhs, op |-> op, rhs |-> rhs]

\* line 108: produced_energy == production[timeslot] * numberOfModules
ProductionConstraint(bv, sv, production, timeslot) ==
    Constraint(LVar(sv[timeslot]["producedEnergy"]), "==",
               LScale(LVar(bv.numberOfModules), production[timeslot]))

\* line 112: consumed_energy == usage[timeslot]
ConsumptionConstraint(sv, usage, timeslot) ==
    Constraint(LVar(sv[timeslot]["consumedEnergy"]), "==", LConst(usage[timeslot]))

\* a balance that adds the bought energy on the wrong side
BalanceConstraint_BoughtAdded(sv, timeslot) ==
    Constraint(LSub(LVar(sv[timeslot]["producedEnergy"]),
                    LVar(sv[timeslot]["consumedEnergy"])),
               "==",
               LAdd(LAdd(LVar(sv[timeslot]["soldEnergy"]),
                         LVar(sv[timeslot]["storageEnergyDelta"])),
                    LVar(sv[timeslot]["boughtEnergy"])))

\* lines 114-122: energy_delta == sold_energy + store_energy_delta - bought_energy
BalanceConstraint(sv, timeslot) ==
    Constraint(LSub(LVar(sv[timeslot]["producedEnergy"]),
                    LVar(sv[timeslot]["consumedEnergy"])),
               "==",
               LSub(LAdd(LVar(sv[timeslot]["soldEnergy"]),
                         LVar(sv[timeslot]["storageEnergyDelta"])),
                    LVar(sv[timeslot]["boughtEnergy"])))

\* lines 125-127: storage_level == 0
InitialConstraint(sv, timeslot) ==
    Constraint(LVar(sv[timeslot]["storageLevel"]), "==", LConst(0))

\* a recursion that adds the delta of the timeslot itself
RecursionConstraint_OwnDelta(sv, timeslot) ==
    LET last_timeslot == timeslot - 1
    IN  Constraint(LVar(sv[timeslot]["storageLevel"]), "==",
                   LAdd(LVar(sv[last_timeslot]["storageLevel"]),
                        LVar(sv[timeslot]["storageEnergyDelta"])))

\* lines 129-133: storage_level == last storageLevel + last storageEnergyDelta
RecursionConstraint(sv, timeslot) ==
    LET last_timeslot == timeslot - 1
    IN  Constraint(LVar(sv[timeslot]["storageLevel"]), "==",
                   LAdd(LVar(sv[last_timeslot]["storageLevel"]),
                        LVar(sv[last_timeslot]["storageEnergyDelta"])))

\* a capacity bound on the configured maximum instead of the purchased size
CapacityConstraint_ConfiguredMaximum(bv, sv, timeslot) ==
    Constraint(LVar(sv[timeslot]["storageLevel"]), "<=",
               LConst(config.max_storage_size_in_kwh * KwhToWh))

\* line 136: storage_level <= sizeOfStorageInKwh * 1000
CapacityConstraint(bv, sv, timeslot) ==
    Constraint(LVar(sv[timeslot]["storageLevel"]), "<=",
               LScale(LVar(bv.sizeOfStorageInKwh), KwhToWh))

\* a timeslot loop that loses the initial condition
TimeslotConstraints_NoInitial(bv, sv, production, usage, timeslot) ==
    << ProductionConstraint(bv, sv, production, timeslot),
       ConsumptionConstraint(sv, usage, timeslot),
       BalanceConstraint(sv, timeslot) >>
    \o (IF timeslot # 0 THEN << RecursionConstraint(sv, timeslot) >> ELSE << >>)
    \o << CapacityConstraint(bv, sv, timeslot) >>

\* lines 103-136: what one pass of the timeslot loop adds, in order
TimeslotConstraints(bv, sv, production, usage, timeslot) ==
    << ProductionConstraint(bv, sv, production, timeslot),
       ConsumptionConstraint(sv, usage, timeslot),
       BalanceConstraint(sv, timeslot) >>
    \o (IF timeslot = 0 THEN << InitialConstraint(sv, timeslot) >> ELSE << >>)
    \o (IF timeslot # 0 THEN << RecursionConstraint(sv, timeslot) >> ELSE << >>)
    \o << CapacityConstraint(bv, sv, timeslot) >>

\* lines 102-136: the constraints of the timeslots lo .. hi - 1, in loop order
RECURSIVE TimeslotLoopConstraints(_, _, _, _, _, _)
TimeslotLoopConstraints(bv, sv, production, usage, lo, hi) ==
    IF hi <= lo THEN << >>
    ELSE IF hi = lo + 1 THEN TimeslotConstraints(bv, sv, production, usage, lo)
    ELSE LET mid == (lo + hi) \div 2
         IN  TimeslotLoopConstraints(bv, sv, production, usage, lo, mid)
             \o TimeslotLoopConstraints(bv, sv, production, usage, mid, hi)

\* lines 102-136: the timeslot loop over range(n)
ScenarioConstraints(bv, sv, production, usage, n) ==
    TimeslotLoopConstraints(bv, sv, production, usage, 0, n)

\* -------------------------------------------------------------- objective
\* lines 147-148
Investment(cfg, bv) ==
    RAdd(RScale(RVar(bv.numberOfModules), <<cfg.price_per_module_in_euro, 1>>),
         RScale(RVar(bv.sizeOfStorageInKwh), <<cfg.storage_price_per_kwh_in_euro, 1>>))

\* lines 172-173: the two terms one timeslot adds to the costs
TimeslotCosts(sv, purchase, selling, timeslot) ==
    RSub(RScale(RScale(RVar(sv[timeslot]["boughtEnergy"]), Rat(1, KwhToWh)),
                Rat(purchase[timeslot], CentsPerEuro)),
         RScale(RScale(RVar(sv[timeslot]["soldEnergy"]), Rat(1, KwhToWh)),
                Rat(selling[timeslot], CentsPerEuro)))

\* lines 170-173: the costs of the timeslots lo .. hi - 1, added up
RECURSIVE TimeslotLoopCosts(_, _, _, _, _)
TimeslotLoopCosts(sv, purchase, selling, lo, hi) ==
    IF hi <= lo THEN RZero
    ELSE IF hi = lo + 1 THEN TimeslotCosts(sv, purchase, selling, lo)
    ELSE LET mid == (lo + hi) \div 2
         IN  RAdd(TimeslotLoopCosts(sv, purchase, selling, lo, mid),
                  TimeslotLoopCosts(sv, purchase, selling, mid, hi))

\* lines 166-175: _calculate_scenario_costs, the loop over range(n)
CalculateScenarioCosts(sv, purchase, selling, n) ==
    TimeslotLoopCosts(sv, purchase, selling, 0, n)

\* lines 150-161: the scenario costs, summed over range(n)
RECURSIVE SumScenarioCosts(_, _, _, _, _)
SumScenarioCosts(cfg, svs, purchase, selling, n) ==
    IF n <= 0 THEN RZero
    ELSE RAdd(SumScenarioCosts(cfg, svs, purchase, selling, n - 1),
              CalculateScenarioCosts(svs[n - 1], purchase, selling, TimeslotCount(cfg)))

\* scenario costs summed but not divided by the number of scenarios
EstimatedCosts_NoMean(cfg, svs, purchase, selling) ==
    SumScenarioCosts(cfg, svs, purchase, selling, cfg.number_of_scenarios)

\* line 162: estimated_costs_during_optimization_period /= number_of_scenarios
EstimatedCosts(cfg, svs, purchase, selling) ==
    RScale(SumScenarioCosts(cfg, svs, purchase, selling, cfg.number_of_scenarios),
           Rat(1, cfg.number_of_scenarios))

\* line 164: the expression handed to Minimize
ObjectiveExpression(cfg, bv, svs, purchase, selling) ==
    RAdd(Investment(cfg, bv), EstimatedCosts(cfg, svs, purchase, selling))

\* ---------------------------------------------------------------- actions
Unset == "unset"

\* StorageSelectionProblem.__init__ for every instance of the run
InitInstances(n) ==
    /\ config \in Configurations
    /\ rng \in 0 .. MaxSeed
    /\ pc = [i \in 1 .. n |-> "base_variables"]
    /\ scenario = [i \in 1 .. n |-> 0]
    /\ variables = [i \in 1 .. n |-> << >>]
    /\ constraints = [i \in 1 .. n |-> << >>]
    /\ objective = [i \in 1 .. n |-> Unset]
    /\ scenario_variables = [i \in 1 .. n |-> << >>]
    /\ profiles = [i \in 1 .. n |-> << >>]
    /\ prices = [i \in 1 .. n |-> Unset]
    /\ status = Unset
    /\ solution = << >>
    /\ printed = << >>

Finished(i) == pc[i] \in {"built", "ValueError", "ZeroDivisionError",
                          "exported", "solved", "done"}

\* the builds run one after the other
Turn(i) == \A j \in DOMAIN pc : j < i => Finished(j)

\* buildModel, lines 21-22: _buildBaseVariables
BuildBaseVariables(i) ==
    /\ pc[i] = "base_variables"
    /\ Turn(i)
    /\ variables' = [variables EXCEPT ![i] = @ \o BaseVariableDecls(config)]
    /\ pc' = [pc EXCEPT ![i] =
                IF config.number_of_scenarios > 0 THEN "scenario_variables"
                ELSE "objective"]
    /\ UNCHANGED <<config, rng, scenario, constraints, objective,
                   scenario_variables, profiles, prices, status, solution, printed>>

\* lines 52-53: one pass of the loop of _buildScenarioVariables
BuildScenarioVariablesForScenario(i) ==
    /\ pc[i] = "scenario_variables"
    /\ scenario_variables' = [scenario_variables EXCEPT ![i] =
            @ @@ (scenario[i] :> ScenarioVariablesDict(config, Len(variables[i])))]
    /\ variables' = [variables EXCEPT ![i] =
            @ \o ScenarioVariableDecls(config, TimeslotCount(config))]
    /\ IF scenario[i] + 1 < config.number_of_scenarios
         THEN /\ scenario' = [scenario EXCEPT ![i] = @ + 1]
              /\ pc' = pc
         ELSE /\ scenario' = [scenario EXCEPT ![i] = 0]
              /\ pc' = [pc EXCEPT ![i] = "constraints"]
    /\ UNCHANGED <<config, rng, constraints, objective, profiles, prices,
                   status, solution, printed>>

\* lines 80-84 and 86-136: one pass of the loop of _buildConstraints
BuildScenarioConstraints(i) ==
    /\ pc[i] = "constraints"
    /\ IF TimeslotCount(config) < 0
         THEN \* np.random.normal refuses a negative size
              /\ pc' = [pc EXCEPT ![i] = "ValueError"]
              /\ UNCHANGED <<rng, scenario, constraints, profiles>>
         ELSE LET n == TimeslotCount(config)
                  production == ProductionPerModule(config,
                                    NormalSample(SolarMean, SolarStd, n, rng))
                  afterSolar == NormalAdvance(n, rng)
                  usage == Usage(NormalSample(UsageMean, UsageStd, n, afterSolar))
              IN  /\ rng' = NormalAdvance(n, afterSolar)
                  /\ profiles' = [profiles EXCEPT ![i] =
                        @ @@ (scenario[i] :> [production |-> production, usage |-> usage])]
                  /\ constraints' = [constraints EXCEPT ![i] =
                        @ \o ScenarioConstraints(BaseVariablesDict,
                                 scenario_variables[i][scenario[i]], production, usage, n)]
                  /\ IF scenario[i] + 1 < config.number_of_scenarios
                       THEN /\ scenario' = [scenario EXCEPT ![i] = @ + 1]
                            /\ pc' = pc
                       ELSE /\ scenario' = [scenario EXCEPT ![i] = 0]
                            /\ pc' = [pc EXCEPT ![i] = "objective"]
    /\ UNCHANGED <<config, variables, objective, scenario_variables, prices,
                   status, solution, printed>>

\* lines 138-164: _buildObjective, and lines 35-37
BuildObjective(i) ==
    /\ pc[i] = "objective"
    /\ IF TimeslotCount(config) < 0
         THEN /\ pc' = [pc EXCEPT ![i] = "ValueError"]
              /\ UNCHANGED <<rng, prices, objective>>
         ELSE LET n == TimeslotCount(config)
                  purchase == NormalSample(PurchasePriceCents, PriceStd, n, rng)
                  afterPurchase == NormalAdvance(n, rng)
                  selling == NormalSample(SellingPriceCents, PriceStd, n, afterPurchase)
              IN  /\ rng' = NormalAdvance(n, afterPurchase)
                  /\ prices' = [prices EXCEPT ![i] =
                                    [purchase |-> purchase, selling |-> selling]]
                  /\ IF config.number_of_scenarios = 0
                       THEN \* 0 / 0 at line 162
                            /\ pc' = [pc EXCEPT ![i] = "ZeroDivisionError"]
                            /\ UNCHANGED objective
                       ELSE /\ objective' = [objective EXCEPT ![i] =
                                ObjectiveExpression(config, BaseVariablesDict,
                                    scenario_variables[i], purchase, selling)]
                            /\ pc' = [pc EXCEPT ![i] = "built"]
    /\ UNCHANGED <<config, scenario, variables, constraints, scenario_variables,
                   profiles, status, solution, printed>>

\* two problems built in one process, one after the other
InitTwoBuilds == InitInstances(2)
NextTwoBuilds ==
    \/ \E i \in DOMAIN pc : BuildBaseVariables(i)
    \/ \E i \in DOMAIN pc : BuildScenarioVariablesForScenario(i)
    \/ \E i \in DOMAIN pc : BuildScenarioConstraints(i)
    \/ \E i \in DOMAIN pc : BuildObjective(i)
SpecTwoBuilds == InitTwoBuilds /\ [][NextTwoBuilds]_vars

\* ----------------------------------------------------------------- solving
\* whether an assignment of values to the variables satisfies a constraint
Holds(c, val) ==
    IF c.op = "==" THEN LEval(c.lhs, val) = LEval(c.rhs, val)
    ELSE LEval(c.lhs, val) <= LEval(c.rhs, val)

SatisfiesConstraints(cons, val) == \A k \in 1 .. Len(cons) : Holds(cons[k], val)

WithinBounds(decls, val) ==
    \A k \in 1 .. Len(decls) :
        /\ val[k] >= decls[k].lb
        /\ IF decls[k].ub = Infinity THEN TRUE ELSE val[k] <= decls[k].ub[1]

Feasible(i, val) ==
    /\ WithinBounds(variables[i], val)
    /\ SatisfiesConstraints(constraints[i], val)

\* The points of the built problem that are told apart.  A point fixes the
\* two investment values within their declared bounds and, for every
\* scenario, `last` Wh taken out of the storage at the last timeslot, whose
\* delta no recursion constraint follows; energy not stored is sold, energy
\* missing is bought.  A moved point further puts `move[1]` Wh into the
\* storage of one scenario at the timeslot `at` and `move[2]` Wh at the next
\* one.  A shifted point has one variable of one timeslot (or both traded
\* energies) moved off an idle point by ChargeStep.
\* Within the configurations considered no module and no storage pays for
\* itself (a module costs 850 euro and yields at most 0.8 kWh an hour, bought
\* at 0.50 euro), so the minimum of the built problem is the point with the
\* least investment and the deepest discharge at the last timeslot, which is
\* one of these points.
ChargeStep == KwhToWh
Moves == { <<ChargeStep, 0>>, <<ChargeStep, 0 - ChargeStep>>,
           <<0 - ChargeStep, 0>>, <<0 - ChargeStep, ChargeStep>> }
Shifts == {"trade"} \cup {Fields[k] : k \in 1 .. Len(Fields)}

ModuleChoices == config.min_number_of_modules .. config.max_number_of_modules
SizeChoices == config.min_storage_size_in_kwh .. config.max_storage_size_in_kwh
\* line 70: storageEnergyDelta >= - max_storage_size_in_kwh * 1000
Discharges == { k * ChargeStep : k \in 0 .. config.max_storage_size_in_kwh }
Choice(n, z, l, s, t, m, d) ==
    [modules |-> n, size |-> z, last |-> l,
     scenario |-> s, at |-> t, move |-> m, shift |-> d]

IdleChoices ==
    { Choice(n, z, l, 0, 0, <<0, 0>>, "none") :
        n \in ModuleChoices, z \in SizeChoices, l \in Discharges }
MovedChoices ==
    { Choice(n, z, 0, s, t, m, "none") :
        n \in ModuleChoices \cap {config.max_number_of_modules},
        z \in SizeChoices,
        s \in Range(config.number_of_scenarios),
        t \in Range(TimeslotCount(config)),
        m \in Moves }
ShiftedChoices ==
    { Choice(n, z, 0, s, t, <<0, 0>>, d) :
        n \in ModuleChoices \cap {config.max_number_of_modules},
        z \in SizeChoices \cap {config.max_storage_size_in_kwh},
        s \in Range(config.number_of_scenarios),
        t \in Range(TimeslotCount(config)),
        d \in Shifts }
PointChoices == IdleChoices \cup MovedChoices \cup ShiftedChoices

PointValue(i, ch, s, t, f) ==
    LET here == (s = ch.scenario)
        moved == IF here /\ t = ch.at THEN ch.move[1]
                 ELSE IF here /\ t = ch.at + 1 THEN ch.move[2] ELSE 0
        delta == IF t = TimeslotCount(config) - 1 THEN moved - ch.last ELSE moved
        level == IF here /\ t = ch.at + 1 THEN ch.move[1]
                 ELSE IF here /\ t > ch.at + 1 THEN ch.move[1] + ch.move[2] ELSE 0
        produced == profiles[i][s].production[t] * ch.modules
        consumed == profiles[i][s].usage[t]
        net == produced - consumed - delta
        base == CASE f = "storageLevel" -> level
                  [] f = "storageEnergyDelta" -> delta
                  [] f = "producedEnergy" -> produced
                  [] f = "consumedEnergy" -> consumed
                  [] f = "boughtEnergy" -> Max(0 - net, 0)
                  [] f = "soldEnergy" -> Max(net, 0)
        shifted == /\ here
                   /\ t = ch.at
                   /\ \/ ch.shift = f
                      \/ ch.shift = "trade" /\ f \in {"boughtEnergy", "soldEnergy"}
    IN  IF shifted THEN base + ChargeStep ELSE base

Point(i, ch) ==
    [k \in 1 .. Len(variables[i]) |->
        IF k = BaseVariablesDict.numberOfModules THEN ch.modules
        ELSE IF k = BaseVariablesDict.sizeOfStorageInKwh THEN ch.size
        ELSE LET s == (k - 3) \div (Len(Fields) * TimeslotCount(config))
                 t == ((k - 3) \div Len(Fields)) % TimeslotCount(config)
                 f == Fields[((k - 3) % Len(Fields)) + 1]
             IN  PointValue(i, ch, s, t, f)]

Candidates(i) == { Point(i, ch) : ch \in PointChoices }
FeasiblePoints(i) == { v \in Candidates(i) : Feasible(i, v) }

\* the value of the objective at a point, as an integer multiple of
\* 1 / scale, where scale is a common denominator of the coefficients
Lcm(a, b) == (a \div Gcd(a, b)) * b
RECURSIVE DenominatorLcm(_, _, _)
DenominatorLcm(e, lo, hi) ==
    IF hi < lo THEN e.const[2]
    ELSE IF hi = lo THEN Lcm(e.const[2], RCoef(e, lo)[2])
    ELSE LET mid == (lo + hi) \div 2
         IN  Lcm(DenominatorLcm(e, lo, mid), DenominatorLcm(e, mid + 1, hi))
\* the variables the expression mentions, in index order
Terms(e, n) == SelectSeq([k \in 1 .. n |-> k], LAMBDA k : k \in DOMAIN e.coef)
RECURSIVE ScaledTerms(_, _, _, _, _, _)
ScaledTerms(e, scale, terms, val, lo, hi) ==
    IF hi < lo THEN 0
    ELSE IF hi = lo
        THEN LET k == terms[lo]
             IN  e.coef[k][1] * (scale \div e.coef[k][2]) * val[k]
    ELSE LET mid == (lo + hi) \div 2
         IN  ScaledTerms(e, scale, terms, val, lo, mid)
                 + ScaledTerms(e, scale, terms, val, mid + 1, hi)
ObjectiveValue(e, scale, terms, val) ==
    e.const[1] * (scale \div e.const[2])
        + ScaledTerms(e, scale, terms, val, 1, Len(terms))

\* the feasible points, each with the value of the objective at it
Scored(i) ==
    LET scale == DenominatorLcm(objective[i], 1, Len(variables[i]))
        terms == Terms(objective[i], Len(variables[i]))
    IN  { <<ObjectiveValue(objective[i], scale, terms, v), v>> : v \in FeasiblePoints(i) }

\* the least objective value among the feasible points, if there is one
Least(scored) ==
    IF scored = {} THEN 0
    ELSE (CHOOSE p \in scored : \A q \in scored : p[1] <= q[1])[1]

\* bought and sold energy have no upper bound (lines 73-74): the objective
\* falls without limit where energy sells for more than it is bought for
UnboundedBelow(i) ==
    \E t \in DOMAIN prices[i].purchase : prices[i].purchase[t] < prices[i].selling[t]

\* a bound pair of a base variable leaves no value (lines 40-44)
InvertedBounds ==
    \/ config.min_number_of_modules > config.max_number_of_modules
    \/ config.min_storage_size_in_kwh > config.max_storage_size_in_kwh

NoSolution == << >>

\* -------------------------------------------------------------------- main
\* main.py lines 26-33: the problem characteristics are printed and exported
PrintCharacteristics ==
    /\ pc[1] = "built"
    /\ printed' = printed \o << <<"variables:", Len(variables[1])>>,
                                <<"constraints:", Len(constraints[1])>> >>
    /\ pc' = [pc EXCEPT ![1] = "exported"]
    /\ UNCHANGED <<config, rng, scenario, variables, constraints, objective,
                   scenario_variables, profiles, prices, status, solution>>

\* main.py line 34: the one blocking solve, and the result status it can end
\* with.  OPTIMAL comes with a point of least objective value; FEASIBLE with
\* any point that satisfies the model (the search stopped early); INFEASIBLE
\* or MODEL_INVALID when the declared bounds leave no point; UNBOUNDED when
\* the objective has no minimum; ABNORMAL and NOT_SOLVED when the engine ends
\* without a point.  Without a solution the variables hold no values.
Solve ==
    /\ pc[1] = "exported"
    /\ \/ \E scored \in {Scored(1)} : \E least \in {Least(scored)} :
            \E p \in scored :
                /\ \/ status' = "FEASIBLE"
                   \/ p[1] = least /\ status' = "OPTIMAL"
                /\ solution' = p[2]
       \/ /\ InvertedBounds
          /\ status' \in {"INFEASIBLE", "MODEL_INVALID"}
          /\ solution' = NoSolution
       \/ /\ UnboundedBelow(1)
          /\ status' = "UNBOUNDED"
          /\ solution' = NoSolution
       \/ /\ status' \in {"ABNORMAL", "NOT_SOLVED"}
          /\ solution' = NoSolution
    /\ pc' = [pc EXCEPT ![1] = "solved"]
    /\ UNCHANGED <<config, rng, scenario, variables, constraints, objective,
                   scenario_variables, profiles, prices, printed>>

\* solution_value() of a variable: 0 when the solver holds no solution
SolutionValue(k) == IF solution = NoSolution THEN 0 ELSE solution[k]

\* main.py lines 36-38: the two investment values are read back and printed
PrintSolution ==
    /\ pc[1] = "solved"
    /\ printed' = printed \o
            << <<"Modules:", SolutionValue(BaseVariablesDict.numberOfModules)>>,
               <<"Storage:", SolutionValue(BaseVariablesDict.sizeOfStorageInKwh)>> >>
    /\ pc' = [pc EXCEPT ![1] = "done"]
    /\ UNCHANGED <<config, rng, scenario, variables, constraints, objective,
                   scenario_variables, profiles, prices, status, solution>>

\* main.py: one problem, built, solved and reported
Init == InitInstances(1)
Next ==
    \/ BuildBaseVariables(1)
    \/ BuildScenarioVariablesForScenario(1)
    \/ BuildScenarioConstraints(1)
    \/ BuildObjective(1)
    \/ PrintCharacteristics
    \/ Solve
    \/ PrintSolution
Spec == Init /\ [][Next]_vars

\* ============================================================== properties
Built(i) == pc[i] \in {"built", "exported", "solved", "done"}
ValidCounts == config.number_of_scenarios >= 1 /\ config.number_of_days >= 1
ValidConfiguration ==
    /\ ValidCounts
    /\ config.min_number_of_modules <= config.max_number_of_modules
    /\ config.min_storage_size_in_kwh <= config.max_storage_size_in_kwh
Scenarios == Range(config.number_of_scenarios)
Timeslots == Range(TimeslotCount(config))

\* the handle of a scenario variable of instance i
Handle(i, s, t, f) == scenario_variables[i][s][t][f]
AllHandles(i) ==
    { Handle(i, s, t, Fields[k]) : s \in Scenarios, t \in Timeslots, k \in 1 .. Len(Fields) }

\* ---------------------------------------------------------------------- C1
\* C1: once buildModel has completed on a configuration with at least one
\* scenario and one day, the solver holds 2 + 6 * scenarios * days * 24
\* variables: the two base variables first, and six variables of their own
\* for every (scenario, timeslot) pair.
C1_VariableCount ==
    \A i \in DOMAIN pc :
        (Built(i) /\ ValidCounts) =>
            /\ Len(variables[i]) =
                  2 + 6 * config.number_of_scenarios * config.number_of_days * 24
            /\ variables[i][1].name = "numberOfModules"
            /\ variables[i][2].name = "sizeOfStorageInKwh"
            /\ AllHandles(i) = 3 .. Len(variables[i])
            /\ \A s \in Scenarios : \A t \in Timeslots :
                  Cardinality({Handle(i, s, t, Fields[k]) : k \in 1 .. Len(Fields)}) = 6

C1_Witness ==
    /\ pc[1] = "built"
    /\ config.number_of_scenarios = 2
    /\ config.number_of_days = 1
    /\ Len(variables[1]) = 290

\* ---------------------------------------------------------------------- C2
\* the variables a constraint mentions
Mentions(c) == (DOMAIN c.lhs.coef) \cup (DOMAIN c.rhs.coef)
\* the k-th constraint added for timeslot t of scenario s
Added(i, s, t, k) == constraints[i][(s * TimeslotCount(config) + t) * 5 + k]

\* C2: once buildModel has completed on a configuration with at least one
\* scenario and one day, the solver holds scenarios * days * 24 * 5
\* constraints: for every (scenario, timeslot) pair one production link, one
\* consumption link, one balance, one of initial condition (t = 0) and
\* recursion (t > 0), and one capacity constraint; none is on the base
\* variables alone.
C2_ConstraintCount ==
    \A i \in DOMAIN pc :
        (Built(i) /\ ValidCounts) =>
            /\ Len(constraints[i]) =
                  config.number_of_scenarios * config.number_of_days * 24 * 5
            /\ \A s \in Scenarios : \A t \in Timeslots :
                  /\ Mentions(Added(i, s, t, 1)) =
                        {Handle(i, s, t, "producedEnergy"), BaseVariablesDict.numberOfModules}
                  /\ Mentions(Added(i, s, t, 2)) = {Handle(i, s, t, "consumedEnergy")}
                  /\ Mentions(Added(i, s, t, 3)) =
                        {Handle(i, s, t, f) : f \in {"producedEnergy", "consumedEnergy",
                             "soldEnergy", "storageEnergyDelta", "boughtEnergy"}}
                  /\ t = 0 => /\ Mentions(Added(i, s, t, 4)) = {Handle(i, s, t, "storageLevel")}
                              /\ Added(i, s, t, 4).op = "=="
                  /\ t > 0 => Cardinality(Mentions(Added(i, s, t, 4))) = 3
                  /\ Mentions(Added(i, s, t, 5)) =
                        {Handle(i, s, t, "storageLevel"), BaseVariablesDict.sizeOfStorageInKwh}
                  /\ Added(i, s, t, 5).op = "<="
            /\ \A k \in 1 .. Len(constraints[i]) :
                  ~ (Mentions(constraints[i][k]) \subseteq {1, 2})

C2_Witness ==
    /\ pc[1] = "built"
    /\ config.number_of_scenarios = 2
    /\ config.number_of_days = 1
    /\ Len(constraints[1]) = 240

\* ------------------------------------------------------------ C3, C4, C5
\* a constraint with everything moved to its left-hand side
Normal(c) == LSub(c.lhs, c.rhs)
\* the solve ended with a point: the value of a scenario variable in it
Solved == pc[1] \in {"solved", "done"} /\ status \in {"OPTIMAL", "FEASIBLE"}
Sol(s, t, f) == solution[Handle(1, s, t, f)]

\* C3: the built constraint system holds, for every scenario and timeslot,
\* produced == sampled production * numberOfModules, consumed == sampled
\* usage and produced - consumed == sold + storageEnergyDelta - bought, so
\* every point the solver can return satisfies the three equations.
C3_Balance ==
    /\ \A i \in DOMAIN pc : pc[i] = "built" =>
          \A s \in Scenarios : \A t \in Timeslots :
              /\ Added(i, s, t, 1).op = "=="
              /\ Normal(Added(i, s, t, 1)) =
                    [coef |-> (Handle(i, s, t, "producedEnergy") :> 1) @@
                              (BaseVariablesDict.numberOfModules :>
                                   0 - profiles[i][s].production[t]),
                     const |-> 0]
              /\ Added(i, s, t, 2).op = "=="
              /\ Normal(Added(i, s, t, 2)) =
                    [coef |-> (Handle(i, s, t, "consumedEnergy") :> 1),
                     const |-> 0 - profiles[i][s].usage[t]]
              /\ Added(i, s, t, 3).op = "=="
              /\ Normal(Added(i, s, t, 3)) =
                    [coef |-> (Handle(i, s, t, "producedEnergy") :> 1) @@
                              (Handle(i, s, t, "consumedEnergy") :> 0 - 1) @@
                              (Handle(i, s, t, "soldEnergy") :> 0 - 1) @@
                              (Handle(i, s, t, "storageEnergyDelta") :> 0 - 1) @@
                              (Handle(i, s, t, "boughtEnergy") :> 1),
                     const |-> 0]
    /\ Solved =>
          \A s \in Scenarios : \A t \in Timeslots :
              /\ Sol(s, t, "producedEnergy") - Sol(s, t, "consumedEnergy") =
                    Sol(s, t, "soldEnergy") + Sol(s, t, "storageEnergyDelta")
                        - Sol(s, t, "boughtEnergy")
              /\ Sol(s, t, "producedEnergy") =
                    profiles[1][s].production[t] * solution[BaseVariablesDict.numberOfModules]
              /\ Sol(s, t, "consumedEnergy") = profiles[1][s].usage[t]

C3_Witness ==
    /\ Solved
    /\ solution[BaseVariablesDict.numberOfModules] = 1
    /\ \E s \in Scenarios : \E t \in Timeslots :
          /\ Sol(s, t, "storageEnergyDelta") = 1000
          /\ Sol(s, t, "producedEnergy") > 0
          /\ Sol(s, t, "boughtEnergy") > 0

\* the storage deltas of the timeslots lo .. hi - 1 of a scenario, added up
RECURSIVE SumDelta(_, _, _)
SumDelta(s, lo, hi) ==
    IF hi <= lo THEN 0
    ELSE IF hi = lo + 1 THEN Sol(s, lo, "storageEnergyDelta")
    ELSE LET mid == (lo + hi) \div 2 IN SumDelta(s, lo, mid) + SumDelta(s, mid, hi)

\* C4: the built constraint system holds storageLevel[s,0] == 0 and, for
\* t > 0, storageLevel[s,t] == storageLevel[s,t-1] + storageEnergyDelta[s,t-1],
\* a constraint on these three variables only; so in every point the solver
\* can return the level of a timeslot is the sum of the earlier deltas.
C4_Recursion ==
    /\ \A i \in DOMAIN pc : pc[i] = "built" =>
          \A s \in Scenarios : \A t \in Timeslots :
              /\ Added(i, s, t, 4).op = "=="
              /\ t = 0 => Normal(Added(i, s, t, 4)) =
                    [coef |-> (Handle(i, s, 0, "storageLevel") :> 1), const |-> 0]
              /\ t > 0 => Normal(Added(i, s, t, 4)) =
                    [coef |-> (Handle(i, s, t, "storageLevel") :> 1) @@
                              (Handle(i, s, t - 1, "storageLevel") :> 0 - 1) @@
                              (Handle(i, s, t - 1, "storageEnergyDelta") :> 0 - 1),
                     const |-> 0]
    /\ Solved =>
          \A s \in Scenarios : \A t \in Timeslots :
              /\ t = 0 => Sol(s, t, "storageLevel") = 0
              /\ t > 0 => Sol(s, t, "storageLevel") =
                    Sol(s, t - 1, "storageLevel") + Sol(s, t - 1, "storageEnergyDelta")
              /\ Sol(s, t, "storageLevel") = SumDelta(s, 0, t)

C4_Witness ==
    /\ Solved
    /\ \E s \in Scenarios : \E t \in Timeslots : \E u \in Timeslots :
          /\ 0 < t /\ t < u
          /\ Sol(s, t, "storageLevel") = 1000
          /\ Sol(s, u, "storageLevel") = 0

\* C5: the built constraint system holds, for every scenario and timeslot,
\* storageLevel[s,t] <= sizeOfStorageInKwh * 1000 on the one base variable,
\* so no point the solver can return stores more than the purchased size.
C5_Capacity ==
    /\ \A i \in DOMAIN pc : pc[i] = "built" =>
          \A s \in Scenarios : \A t \in Timeslots :
              /\ Added(i, s, t, 5).op = "<="
              /\ Normal(Added(i, s, t, 5)) =
                    [coef |-> (Handle(i, s, t, "storageLevel") :> 1) @@
                              (BaseVariablesDict.sizeOfStorageInKwh :> 0 - 1000),
                     const |-> 0]
    /\ Solved =>
          \A s \in Scenarios : \A t \in Timeslots :
              Sol(s, t, "storageLevel") <=
                  solution[BaseVariablesDict.sizeOfStorageInKwh] * 1000

C5_Witness ==
    /\ Solved
    /\ solution[BaseVariablesDict.sizeOfStorageInKwh] = 1
    /\ \E s \in Scenarios : \E t \in Timeslots : Sol(s, t, "storageLevel") = 1000

\* ---------------------------------------------------------------------- C6
RECURSIVE SumCoef(_, _, _, _)
SumCoef(i, n, t, f) ==
    IF n <= 0 THEN <<0, 1>>
    ELSE RatAdd(SumCoef(i, n - 1, t, f), RCoef(objective[i], Handle(i, n - 1, t, f)))

\* C6: the objective handed to Minimize is the investment (module price per
\* module, storage price per kWh) plus the mean over the scenarios of the
\* recourse costs: bought energy enters with purchase price / 1000 / number
\* of scenarios, sold energy with minus selling price / 1000 / number of
\* scenarios, every (scenario, timeslot) pair once and nothing else; the
\* weights of a timeslot add up to the price over all scenarios.
C6_Objective ==
    \A i \in DOMAIN pc :
        (pc[i] = "built" /\ ValidCounts) =>
            LET obj == objective[i]
                n == config.number_of_scenarios
            IN  /\ obj.const = <<0, 1>>
                /\ DOMAIN obj.coef =
                      {1, 2} \cup { Handle(i, s, t, f) : s \in Scenarios, t \in Timeslots,
                                        f \in {"boughtEnergy", "soldEnergy"} }
                /\ obj.coef[1] = <<config.price_per_module_in_euro, 1>>
                /\ obj.coef[2] = <<config.storage_price_per_kwh_in_euro, 1>>
                /\ \A s \in Scenarios : \A t \in Timeslots :
                      /\ obj.coef[Handle(i, s, t, "boughtEnergy")] =
                            Rat(prices[i].purchase[t], 100 * 1000 * n)
                      /\ obj.coef[Handle(i, s, t, "soldEnergy")] =
                            Rat(0 - prices[i].selling[t], 100 * 1000 * n)
                /\ \A t \in Timeslots :
                      /\ SumCoef(i, n, t, "boughtEnergy") =
                            Rat(prices[i].purchase[t], 100 * 1000)
                      /\ SumCoef(i, n, t, "soldEnergy") =
                            Rat(0 - prices[i].selling[t], 100 * 1000)

C6_Witness ==
    /\ pc[1] = "built"
    /\ config.number_of_scenarios = 2
    /\ config.number_of_days = 1
    /\ objective[1].coef[Handle(1, 1, 23, "boughtEnergy")] = <<1, 4000>>
    /\ objective[1].coef[Handle(1, 0, 0, "soldEnergy")] = <<0 - 3, 50000>>

\* ---------------------------------------------------------------------- C7
\* C7: two problems built from the same configuration have the same sampled
\* profiles and prices, hence the same constraints and objective, whatever
\* was sampled before them.
C7_Deterministic ==
    (Built(1) /\ Built(2)) =>
        /\ profiles[1] = profiles[2]
        /\ prices[1] = prices[2]
        /\ constraints[1] = constraints[2]
        /\ objective[1] = objective[2]

\* ---------------------------------------------------------------------- C8
\* C8: from an invalid configuration (a minimum above its maximum, fewer than
\* one scenario or fewer than one day) no variable and no constraint is ever
\* created.
C8_FailFast ==
    ~ ValidConfiguration =>
        \A i \in DOMAIN pc : Len(variables[i]) = 0 /\ Len(constraints[i]) = 0

\* ---------------------------------------------------------------------- C9
\* C9: the two solution values are read and printed only after a solve that
\* reported OPTIMAL.
C9_ReadAfterOptimal ==
    \A k \in 1 .. Len(printed) :
        printed[k][1] \in {"Modules:", "Storage:"} => status = "OPTIMAL"

\* --------------------------------------------------------------------- C10
\* C10: in every point the solver can return, the storage content after the
\* delta of a timeslot, the last one included, is between 0 and the
\* purchased size: 0 <= storageLevel + storageEnergyDelta <= size * 1000.
C10_PhysicalStorage ==
    Solved =>
        \A s \in Scenarios : \A t \in Timeslots :
            /\ 0 <= Sol(s, t, "storageLevel") + Sol(s, t, "storageEnergyDelta")
            /\ Sol(s, t, "storageLevel") + Sol(s, t, "storageEnergyDelta") <=
                  solution[BaseVariablesDict.sizeOfStorageInKwh] * 1000

====
